---- MODULE Spec2Model ----
(***************************************************************************)
(* A model of the ctc-asr utility code:                                    *)
(*   asr/util/storage.py     file / directory / checkpoint deletion and    *)
(*                           the git provenance lookups                    *)
(*   asr/util/tf_contrib.py  conv_layers, bidirectional_cells,             *)
(*                           variable_with_weight_decay and                *)
(*                           AdamOptimizerLogger                           *)
(*   python/predict.py       the run-logging step of main                  *)
(* Each component has its own specification over a shared variable list;   *)
(* the variables of the other components stay at their initial value.      *)
(***************************************************************************)
EXTENDS Integers, Sequences, FiniteSets, TLC

VARIABLES
    \* ---- storage.py: the file system and the running storage call
    fs,         \* path -> entry (absent, regular file, directory with n children)
    pc,         \* position of the running storage call
    cur,        \* the running call: name, path, delete flag
    idx,        \* loop variable i of delete_file_if_exists
    attempts,   \* removal attempts made by the running call
    failures,   \* removal attempts that raised
    slept,      \* seconds spent in time.sleep by the running call
    result,     \* "running", "ok" or the exception that left the call
    log,        \* tf.gfile mutations made by the running call, in order
    fs0,        \* the file system when the running call started
    last,       \* the previous completed call and the file system it left
    \* ---- storage.py git lookups and predict.main's run logging
    repo,       \* the git repository: commits, detached head, tags
    main_pc,    \* position of predict.main in its logging statement
    tag_out,    \* outcome of git_latest_tag()
    branch_out, \* outcome of git_branch()
    hash_out,   \* outcome of git_revision_hash()
    \* ---- tf_contrib.py: conv_layers
    cargs,      \* the call's arguments: filters, kernel_sizes, strides, input shape
    conv_pc,    \* position inside conv_layers
    layer,      \* layers built so far by the for loop
    conv_out,   \* shape of `output` inside the loop: <<batch, time, freq, channels>>
    output,     \* shape of the returned `output`: <<batch, time, features>>
    seq_length, \* the returned seq_length vector
    ops,        \* graph operations built so far
    conv_res,   \* "running", "ok" or the exception that left conv_layers
    \* ---- tf_contrib.py: bidirectional_cells
    cell_args,  \* arguments of the last bidirectional_cells call
    fw_cells,   \* the forward cells it returned
    bw_cells,   \* the backward cells it returned
    \* ---- tf_contrib.py: variable_with_weight_decay
    losses,     \* the graph collection 'losses'
    variables,  \* names in the variable store
    var_call,   \* the last variable_with_weight_decay call and its outcome
    var_calls,  \* number of calls made
    \* ---- tf_contrib.py: AdamOptimizerLogger
    opt,        \* variable, slots m, v and beta powers of the logging optimizer
    ref,        \* the same under tf.train.AdamOptimizer, fed the same gradients
    summaries,  \* the last 'step' histogram and 'estimated_lr' scalar
    opt_pc,     \* "apply" (before _apply_dense) or "finish" (before _finish)
    opt_steps   \* training steps completed

storageVars == <<fs, pc, cur, idx, attempts, failures, slept, result, log, fs0, last>>

gitVars == <<repo, main_pc, tag_out, branch_out, hash_out>>

convVars == <<cargs, conv_pc, layer, conv_out, output, seq_length, ops, conv_res>>

cellVars == <<cell_args, fw_cells, bw_cells>>

lossVars == <<losses, variables, var_call, var_calls>>

optVars == <<opt, ref, summaries, opt_pc, opt_steps>>

notStorage == <<gitVars, convVars, cellVars, lossVars, optVars>>

notGit == <<storageVars, convVars, cellVars, lossVars, optVars>>

notConv == <<storageVars, gitVars, cellVars, lossVars, optVars>>

notCell == <<storageVars, gitVars, convVars, lossVars, optVars>>

notLoss == <<storageVars, gitVars, convVars, cellVars, optVars>>

notOpt == <<storageVars, gitVars, convVars, cellVars, lossVars>>

vars == <<fs, pc, cur, idx, attempts, failures, slept, result, log, fs0, last,
          repo, main_pc, tag_out, branch_out, hash_out,
          cargs, conv_pc, layer, conv_out, output, seq_length, ops, conv_res,
          cell_args, fw_cells, bw_cells,
          losses, variables, var_call, var_calls,
          opt, ref, summaries, opt_pc, opt_steps>>

----------------------------------------------------------------------------
(* storage.py: file system                                                 *)

MaxChildren == 1

Paths == {"train_dir", "other"}

Absent == [kind |-> "none", n |-> 0]

RegularFile == [kind |-> "file", n |-> 0]

Directory(n) == [kind |-> "dir", n |-> n]

FsEntries == {Absent, RegularFile} \cup {Directory(n) : n \in 0..MaxChildren}

\* os.path.exists / tf.gfile.Exists: true of files and of directories
Exists(f, p) == f[p].kind # "none"

IsFile(f, p) == f[p].kind = "file"

IsDir(f, p) == f[p].kind = "dir"

NoCall == [name |-> "none", path |-> "train_dir", delete |-> FALSE]

NoLast == [name |-> "none", path |-> "train_dir", result |-> "ok", attempts |-> 0,
           fs |-> [p \in Paths |-> Absent]]

\* a call starts: remember the file system and reset the call's counters
Begin(name, p, d) ==
    /\ pc = "idle"
    /\ cur' = [name |-> name, path |-> p, delete |-> d]
    /\ fs0' = fs
    /\ idx' = 0
    /\ attempts' = 0
    /\ failures' = 0
    /\ slept' = 0
    /\ log' = <<>>

Finish(res) ==
    /\ pc' = "done"
    /\ result' = res

----------------------------------------------------------------------------
(* delete_file_if_exists                                                   *)

NumTries == 5

LastTryIndex == 4

SleepSeconds == 1

\* the bug of calling os.remove without the exists / isfile test
ShouldRemoveFileNoCheck(f, p) == TRUE

\* storage.py:57
ShouldRemoveFile(f, p) == Exists(f, p) /\ IsFile(f, p)

\* the bug of giving up one try early
IsLastTryOffByOne(i) == i = LastTryIndex - 1

\* storage.py:64
IsLastTry(i) == i = LastTryIndex

DeleteFileCall(p) ==
    /\ Begin("delete_file_if_exists", p, FALSE)
    /\ IF ShouldRemoveFile(fs, p) /\ 0 < NumTries
       THEN pc' = "remove" /\ result' = "running"
       ELSE Finish("ok")
    /\ UNCHANGED <<fs, last>>
    /\ UNCHANGED notStorage

\* os.remove succeeds: break
OsRemoveOk ==
    /\ pc = "remove"
    /\ IsFile(fs, cur.path)
    /\ fs' = [fs EXCEPT ![cur.path] = Absent]
    /\ attempts' = attempts + 1
    /\ Finish("ok")
    /\ UNCHANGED <<cur, idx, failures, slept, log, fs0, last>>
    /\ UNCHANGED notStorage

\* os.remove raises OSError / ValueError: warn, give up on the last try,
\* otherwise sleep and go round the loop
OsRemoveFail ==
    /\ pc = "remove"
    /\ attempts' = attempts + 1
    /\ failures' = failures + 1
    /\ IF IsLastTry(idx)
       THEN /\ Finish("RuntimeError")
            /\ UNCHANGED <<idx, slept>>
       ELSE /\ slept' = slept + SleepSeconds
            /\ idx' = idx + 1
            /\ IF idx + 1 < NumTries
               THEN pc' = "remove" /\ result' = "running"
               ELSE Finish("ok")
    /\ UNCHANGED <<fs, cur, log, fs0, last>>
    /\ UNCHANGED notStorage

----------------------------------------------------------------------------
(* delete_directory_if_exists                                              *)

\* storage.py:79
ShouldRemoveDir(f, p) == Exists(f, p) /\ IsDir(f, p)

DeleteDirectoryCall(p) ==
    /\ Begin("delete_directory_if_exists", p, FALSE)
    /\ IF ShouldRemoveDir(fs, p)
       THEN pc' = "rmtree" /\ result' = "running"
       ELSE Finish("ok")
    /\ UNCHANGED <<fs, last>>
    /\ UNCHANGED notStorage

RmtreeOk ==
    /\ pc = "rmtree"
    /\ fs' = [fs EXCEPT ![cur.path] = Absent]
    /\ attempts' = attempts + 1
    /\ Finish("ok")
    /\ UNCHANGED <<cur, idx, failures, slept, log, fs0, last>>
    /\ UNCHANGED notStorage

\* shutil.rmtree raises OSError, having removed some of the children;
\* storage.py:84-85 re-raises it at once
RmtreeFail ==
    /\ pc = "rmtree"
    /\ \E k \in 0..fs[cur.path].n : fs' = [fs EXCEPT ![cur.path] = Directory(k)]
    /\ attempts' = attempts + 1
    /\ failures' = failures + 1
    /\ Finish("OSError")
    /\ UNCHANGED <<cur, idx, slept, log, fs0, last>>
    /\ UNCHANGED notStorage

----------------------------------------------------------------------------
(* maybe_delete_checkpoints                                                *)

\* the bug of leaving out the else branch that creates a missing directory
MaybeDeleteBranchNoElse(f, p, d) ==
    IF Exists(f, p) /\ d THEN "delete" ELSE "found"

\* storage.py:100-108: which branch of the if / elif / else runs
MaybeDeleteBranch(f, p, d) ==
    IF Exists(f, p) /\ d THEN "delete"
    ELSE IF Exists(f, p) /\ ~d THEN "found"
    ELSE "new"

MaybeDeleteCheckpointsCall(p, d) ==
    /\ Begin("maybe_delete_checkpoints", p, d)
    /\ LET b == MaybeDeleteBranch(fs, p, d) IN
         IF b = "delete" THEN pc' = "gfile_delete" /\ result' = "running"
         ELSE IF b = "found" THEN Finish("ok")
         ELSE pc' = "gfile_makedirs" /\ result' = "running"
    /\ UNCHANGED <<fs, last>>
    /\ UNCHANGED notStorage

\* tf.gfile.DeleteRecursively removes the path and everything below it
GfileDeleteRecursivelyOk ==
    /\ pc = "gfile_delete"
    /\ fs' = [fs EXCEPT ![cur.path] = Absent]
    /\ log' = Append(log, "DeleteRecursively")
    /\ pc' = "gfile_makedirs"
    /\ UNCHANGED <<cur, idx, attempts, failures, slept, result, fs0, last>>
    /\ UNCHANGED notStorage

\* tf.gfile.DeleteRecursively raises (always possible; the only outcome some
\* file systems give for a path that is a regular file), having removed some
\* of the children
GfileDeleteRecursivelyFail ==
    /\ pc = "gfile_delete"
    /\ \E k \in 0..fs[cur.path].n :
         fs' = [fs EXCEPT ![cur.path] = [kind |-> fs[cur.path].kind, n |-> k]]
    /\ log' = Append(log, "DeleteRecursively")
    /\ Finish("OpError")
    /\ UNCHANGED <<cur, idx, attempts, failures, slept, fs0, last>>
    /\ UNCHANGED notStorage

\* tf.gfile.MakeDirs: creates the directory, succeeds on an existing
\* directory, raises when a regular file is in the way
GfileMakeDirs ==
    /\ pc = "gfile_makedirs"
    /\ log' = Append(log, "MakeDirs")
    /\ IF IsFile(fs, cur.path)
       THEN Finish("OpError") /\ fs' = fs
       ELSE /\ Finish("ok")
            /\ fs' = IF Exists(fs, cur.path) THEN fs
                     ELSE [fs EXCEPT ![cur.path] = Directory(0)]
    /\ UNCHANGED <<cur, idx, attempts, failures, slept, fs0, last>>
    /\ UNCHANGED notStorage

\* the call returns or its exception reaches the caller
Return ==
    /\ pc = "done"
    /\ pc' = "idle"
    /\ last' = [name |-> cur.name, path |-> cur.path, result |-> result,
                attempts |-> attempts, fs |-> fs]
    /\ UNCHANGED <<fs, cur, idx, attempts, failures, slept, result, log, fs0>>
    /\ UNCHANGED notStorage

----------------------------------------------------------------------------
(* storage.py: git provenance lookups, and the logging statement of         *)
(* predict.main that calls them                                            *)

MaxTags == 3

MaxDate == 2

Unset == [raised |-> FALSE, value |-> "unset"]

Returned(v) == [raised |-> FALSE, value |-> v]

Raised(e) == [raised |-> TRUE, value |-> e]

\* repo.tags lists the tags in name order; tag i is named ToString(i) and
\* tags[i] is the committed_datetime of its commit
Repos ==
    { [commits |-> TRUE, detached |-> d, tags |-> t] :
        d \in BOOLEAN,
        t \in UNION { [S -> 1..MaxDate] : S \in SUBSET (1..MaxTags) } }
    \cup { [commits |-> FALSE, detached |-> FALSE, tags |-> [i \in {} |-> 1]] }

\* sorted(repo.tags, key=committed_datetime)[-1]: the sort is stable, so among
\* the tags of the latest date the last one in repo.tags order comes last
LastOfSorted(tags) ==
    CHOOSE i \in DOMAIN tags :
        \A j \in DOMAIN tags : tags[j] < tags[i] \/ (tags[j] = tags[i] /\ j <= i)

\* storage.py:13-20
git_revision_hash(r) ==
    IF r.commits THEN Returned("hexsha") ELSE Raised("ValueError")

\* storage.py:23-34
git_branch(r) ==
    IF r.detached THEN Returned("DETACHED HEAD") ELSE Returned("branch")

\* storage.py:37-45: tags[-1] of an empty list raises IndexError
git_latest_tag(r) ==
    IF DOMAIN r.tags = {} THEN Raised("IndexError")
    ELSE Returned(ToString(LastOfSorted(r.tags)))

\* predict.py:58-60: the arguments of format() are evaluated left to right;
\* an exception in one of them leaves main
MainLatestTag ==
    /\ main_pc = "git_latest_tag"
    /\ tag_out' = git_latest_tag(repo)
    /\ main_pc' = IF tag_out'.raised THEN "aborted" ELSE "git_branch"
    /\ UNCHANGED <<repo, branch_out, hash_out>>
    /\ UNCHANGED notGit

MainBranch ==
    /\ main_pc = "git_branch"
    /\ branch_out' = git_branch(repo)
    /\ main_pc' = IF branch_out'.raised THEN "aborted" ELSE "git_revision_hash"
    /\ UNCHANGED <<repo, tag_out, hash_out>>
    /\ UNCHANGED notGit

MainRevisionHash ==
    /\ main_pc = "git_revision_hash"
    /\ hash_out' = git_revision_hash(repo)
    /\ main_pc' = IF hash_out'.raised THEN "aborted" ELSE "print"
    /\ UNCHANGED <<repo, tag_out, branch_out>>
    /\ UNCHANGED notGit

MainPrint ==
    /\ main_pc = "print"
    /\ main_pc' = "logged"
    /\ UNCHANGED <<repo, tag_out, branch_out, hash_out>>
    /\ UNCHANGED notGit

----------------------------------------------------------------------------
(* tf_contrib.py: conv_layers, on tensor shapes                            *)

MaxBatch == 2

MaxTime == 4

FreqLeft == 10

\* spectrogram widths: 80 is what predict.py feeds, 40 what conv1 leaves of it
FreqSizes == {40, 80}

DefaultFilters == <<32, 32, 96>>

DefaultKernelSizes == << <<11, 41>>, <<11, 21>>, <<11, 21>> >>

DefaultStrides == << <<2, 2>>, <<1, 2>>, <<1, 2>> >>

Prefixes(q) == { SubSeq(q, 1, n) : n \in 0..Len(q) }

Min2(a, b) == IF a <= b THEN a ELSE b

\* true lengths of the examples of a batch padded to t time steps
BatchLengths(b, t) == { l \in [1..b -> 1..t] : \E i \in 1..b : l[i] = t }

ConvArgs ==
    UNION { [filters : Prefixes(DefaultFilters),
             kernel_sizes : Prefixes(DefaultKernelSizes),
             strides : Prefixes(DefaultStrides),
             b : {b}, t : {t}, f : FreqSizes,
             lengths : BatchLengths(b, t)] : b \in 1..MaxBatch, t \in 1..MaxTime }

\* the bug of rounding the strided size down
SameOutFloor(w, k, s) == w \div s

\* tf_contrib.py:76-77, padding='SAME'
SameOut(w, k, s) == (w - k + 2 * (k \div 2)) \div s + 1

\* tf.layers.conv2d; tf.minimum and tf.layers.dropout keep the shape
Conv2d(x, filt, kernel_size, stride) ==
    << x[1], SameOut(x[2], kernel_size[1], stride[1]),
       SameOut(x[3], kernel_size[2], stride[2]), filt >>

\* the bug of comparing only two of the three lengths
ArgsMatchTwo(f, k, s) == Len(f) = Len(k)

\* tf_contrib.py:117
ArgsMatch(f, k, s) == Len(f) = Len(k) /\ Len(k) = Len(s)

\* zip() stops at the shortest sequence
ZipLen(a) == Min2(Len(a.filters), Min2(Len(a.kernel_sizes), Len(a.strides)))

NumElements(x) == x[1] * x[2] * x[3] * x[4]

\* tf.reshape(output, [tf.shape(output)[0], -1, width]) is possible when the
\* elements fill whole rows
CanReshape(x, width) == NumElements(x) % (x[1] * width) = 0

Reshape(x, width) == << x[1], NumElements(x) \div (x[1] * width), width >>

\* the bug of swapping the two axes
SeqLengthSwapped(out) == [i \in 1..out[2] |-> out[1]]

\* tf.tile([tf.shape(output)[1]], [tf.shape(output)[0]])
SeqLengthOf(out) == [i \in 1..out[1] |-> out[2]]

ConvCheckArguments ==
    /\ conv_pc = "check"
    /\ IF ArgsMatch(cargs.filters, cargs.kernel_sizes, cargs.strides)
       THEN conv_pc' = "layers" /\ conv_res' = "running"
       ELSE conv_pc' = "done" /\ conv_res' = "ValueError"
    /\ UNCHANGED <<cargs, layer, conv_out, output, seq_length, ops>>
    /\ UNCHANGED notConv

\* one round of the for loop: conv2d, minimum, dropout
ConvLayer ==
    /\ conv_pc = "layers"
    /\ layer < ZipLen(cargs)
    /\ conv_out' = Conv2d(conv_out, cargs.filters[layer + 1],
                          cargs.kernel_sizes[layer + 1], cargs.strides[layer + 1])
    /\ layer' = layer + 1
    /\ ops' = ops + 3
    /\ UNCHANGED <<cargs, conv_pc, output, seq_length, conv_res>>
    /\ UNCHANGED notConv

\* tf_contrib.py:139: filters[-1] of an empty tuple raises IndexError; a
\* feature map that does not fill rows of 10 * filters[-1] cannot be reshaped
ConvReshape ==
    /\ conv_pc = "layers"
    /\ layer = ZipLen(cargs)
    /\ IF Len(cargs.filters) = 0
       THEN /\ conv_pc' = "done"
            /\ conv_res' = "IndexError"
            /\ UNCHANGED <<output, ops>>
       ELSE LET width == FreqLeft * cargs.filters[Len(cargs.filters)] IN
            IF CanReshape(conv_out, width)
            THEN /\ output' = Reshape(conv_out, width)
                 /\ ops' = ops + 1
                 /\ conv_pc' = "tile"
                 /\ conv_res' = "running"
            ELSE /\ conv_pc' = "done"
                 /\ conv_res' = "InvalidArgumentError"
                 /\ ops' = ops + 1
                 /\ UNCHANGED output
    /\ UNCHANGED <<cargs, layer, conv_out, seq_length>>
    /\ UNCHANGED notConv

\* tf_contrib.py:144-146
ConvTile ==
    /\ conv_pc = "tile"
    /\ seq_length' = SeqLengthOf(output)
    /\ ops' = ops + 1
    /\ conv_pc' = "done"
    /\ conv_res' = "ok"
    /\ UNCHANGED <<cargs, layer, conv_out, output>>
    /\ UNCHANGED notConv

----------------------------------------------------------------------------
(* tf_contrib.py: bidirectional_cells and create_cell                      *)
(* Probabilities are in tenths: One stands for 1.0.                        *)

One == 10

DropoutSpread == 5

MaxLayers == 2

MaxUnits == 2

DropoutValues == (0 - DropoutSpread)..(One + DropoutSpread)

Max2(a, b) == IF a >= b THEN a ELSE b

\* the bug of taking dropout itself for the keep-probability
KeepProbNoComplement(dropout) == Min2(One, Max2(0, dropout))

\* tf_contrib.py:162
KeepProb(dropout) == Min2(One, Max2(0, One - dropout))

\* tf_contrib.py:169-194
create_cell(num_units, keep_prob) ==
    [cell |-> "BasicRNNCell", num_units |-> num_units, activation |-> "tanh",
     input_keep_prob |-> keep_prob, output_keep_prob |-> keep_prob,
     seed |-> "FLAGS.random_seed"]

\* tf_contrib.py:149-166
bidirectional_cells(num_units, num_layers, dropout) ==
    /\ cell_args' = [num_units |-> num_units, num_layers |-> num_layers,
                     dropout |-> dropout]
    /\ LET keep_prob == KeepProb(dropout) IN
         /\ fw_cells' = [i \in 1..num_layers |-> create_cell(num_units, keep_prob)]
         /\ bw_cells' = [i \in 1..num_layers |-> create_cell(num_units, keep_prob)]
    /\ UNCHANGED notCell

----------------------------------------------------------------------------
(* tf_contrib.py: variable_with_weight_decay                               *)

MaxCalls == 3

MaxDecay == 1

VarNames == {"w1", "w2", "w3"}

NoDecay == [given |-> FALSE, coeff |-> 0]

Decay(c) == [given |-> TRUE, coeff |-> c]

DecayValues == {NoDecay} \cup { Decay(c) : c \in 0..MaxDecay }

\* the variable scope's reuse setting, which decides what tf.get_variable
\* does with a name that is, or is not, in the variable store
ReuseModes == {"False", "True", "AUTO_REUSE"}

GetVariableRaises(name, reuse) ==
    \/ name \in variables /\ reuse = "False"
    \/ name \notin variables /\ reuse = "True"

\* the bug of testing truthiness, which drops a coefficient of 0
AddsDecayIfTruthy(weight_decay) == weight_decay.given /\ weight_decay.coeff # 0

\* tf_contrib.py:231
AddsDecay(weight_decay) == weight_decay.given

\* tf_contrib.py:232: tf.multiply(tf.nn.l2_loss(var), weight_decay)
WeightLoss(name, weight_decay) ==
    [op |-> "weight_loss", var |-> name, coeff |-> weight_decay.coeff]

\* tf_contrib.py:212-235
variable_with_weight_decay(name, weight_decay, reuse) ==
    /\ var_calls < MaxCalls
    /\ var_calls' = var_calls + 1
    /\ IF GetVariableRaises(name, reuse)
       THEN /\ var_call' = [name |-> name, weight_decay |-> weight_decay,
                            outcome |-> "ValueError"]
            /\ UNCHANGED <<losses, variables>>
       ELSE /\ var_call' = [name |-> name, weight_decay |-> weight_decay,
                            outcome |-> "returned"]
            /\ variables' = variables \cup {name}
            /\ losses' = IF AddsDecay(weight_decay)
                         THEN Append(losses, WeightLoss(name, weight_decay))
                         ELSE losses
    /\ UNCHANGED notLoss

----------------------------------------------------------------------------
(* tf_contrib.py: AdamOptimizerLogger                                      *)
(* Reals are fixed-point integers: Unit stands for 1.0.  The hyper-         *)
(* parameters learning_rate, beta1, beta2 and epsilon are constructor      *)
(* arguments of the tf.train.AdamOptimizer the class extends.              *)

Unit == 16

MaxGrad == 2

MaxSteps == 3

Gradients == { g * Unit : g \in (0 - MaxGrad)..MaxGrad }

HyperParameters == [lr : {4, 8}, beta1 : {8, 14}, beta2 : {12, 15}, epsilon : {1}]

Mul(a, b) == (a * b) \div Unit

Div(a, b) == (a * Unit) \div b

ISqrt(n) == CHOOSE r \in 0..n : r * r <= n /\ (r + 1) * (r + 1) > n

Sqrt(a) == ISqrt(a * Unit)

\* the update tf.train.AdamOptimizer._apply_dense makes to var and its slots
AdamApplyDense(o, grad) ==
    LET lr_t == Div(Mul(o.lr, Sqrt(Unit - o.beta2_power)), Unit - o.beta1_power)
        m_t == o.m + Mul(grad - o.m, Unit - o.beta1)
        v_t == o.v + Mul(Mul(grad, grad) - o.v, Unit - o.beta2)
    IN [o EXCEPT !.m = m_t,
                 !.v = v_t,
                 !.var = o.var - Div(Mul(lr_t, m_t), Sqrt(v_t) + o.epsilon)]

\* tf.train.AdamOptimizer._finish: the beta accumulators advance
AdamFinish(o) ==
    [o EXCEPT !.beta1_power = Mul(o.beta1_power, o.beta1),
              !.beta2_power = Mul(o.beta2_power, o.beta2)]

\* tf_contrib.py:16-29: what the logger computes from the slots
LoggerStatistics(o) ==
    LET m_hat == Div(o.m, Unit - o.beta1_power)
        v_hat == Div(o.v, Unit - o.beta2_power)
    IN [step |-> Div(m_hat, Sqrt(v_hat) + o.epsilon),
        estimated_lr |-> Div(Mul(o.lr, Sqrt(Unit - o.beta2_power)),
                             Unit - o.beta1_power)]

\* the bug of normalising the slots in place (m /= ..., v /= ...)
LoggerApplyDenseInPlace(o, grad) ==
    AdamApplyDense([o EXCEPT !.m = Div(o.m, Unit - o.beta1_power),
                             !.v = Div(o.v, Unit - o.beta2_power)], grad)

\* tf_contrib.py:31: the slots as they are, and grad and var as given, go to
\* the base class
LoggerApplyDense(o, grad) == AdamApplyDense(o, grad)

\* one _apply_dense of each optimizer on the same gradient
ApplyDense(grad) ==
    /\ opt_pc = "apply"
    /\ opt_steps < MaxSteps
    /\ summaries' = LoggerStatistics(opt)
    /\ opt' = LoggerApplyDense(opt, grad)
    /\ ref' = AdamApplyDense(ref, grad)
    /\ opt_pc' = "finish"
    /\ UNCHANGED opt_steps
    /\ UNCHANGED notOpt

FinishStep ==
    /\ opt_pc = "finish"
    /\ opt' = AdamFinish(opt)
    /\ ref' = AdamFinish(ref)
    /\ opt_pc' = "apply"
    /\ opt_steps' = opt_steps + 1
    /\ UNCHANGED summaries
    /\ UNCHANGED notOpt

----------------------------------------------------------------------------
(* Specifications: one per component                                       *)

StorageIdle ==
    /\ pc = "idle"
    /\ cur = NoCall
    /\ idx = 0
    /\ attempts = 0
    /\ failures = 0
    /\ slept = 0
    /\ result = "ok"
    /\ log = <<>>
    /\ last = NoLast

StorageQuiet ==
    /\ fs = [p \in Paths |-> Absent]
    /\ fs0 = fs
    /\ StorageIdle

GitIdle ==
    /\ repo = [commits |-> FALSE, detached |-> FALSE, tags |-> [i \in {} |-> 1]]
    /\ main_pc = "idle"
    /\ tag_out = Unset
    /\ branch_out = Unset
    /\ hash_out = Unset

ConvIdle ==
    /\ cargs = [filters |-> <<>>, kernel_sizes |-> <<>>, strides |-> <<>>,
                b |-> 1, t |-> 1, f |-> 80, lengths |-> <<1>>]
    /\ conv_pc = "idle"
    /\ layer = 0
    /\ conv_out = <<>>
    /\ output = <<>>
    /\ seq_length = <<>>
    /\ ops = 0
    /\ conv_res = "running"

CellIdle ==
    /\ cell_args = [num_units |-> 0, num_layers |-> 0, dropout |-> 0]
    /\ fw_cells = <<>>
    /\ bw_cells = <<>>

LossIdle ==
    /\ losses = <<>>
    /\ variables = {}
    /\ var_call = [name |-> "none", weight_decay |-> NoDecay, outcome |-> "none"]
    /\ var_calls = 0

\* the slots start at zero, the beta accumulators at beta1 and beta2
FreshOptimizer(h) ==
    [var |-> 0, m |-> 0, v |-> 0, beta1_power |-> h.beta1, beta2_power |-> h.beta2,
     lr |-> h.lr, beta1 |-> h.beta1, beta2 |-> h.beta2, epsilon |-> h.epsilon]

OptCreated(h) ==
    /\ opt = FreshOptimizer(h)
    /\ ref = FreshOptimizer(h)
    /\ summaries = [step |-> 0, estimated_lr |-> 0]
    /\ opt_pc = "apply"
    /\ opt_steps = 0

Elsewhere(component) ==
    /\ component = "storage" \/ StorageQuiet
    /\ component = "git" \/ GitIdle
    /\ component = "conv" \/ ConvIdle
    /\ component = "cell" \/ CellIdle
    /\ component = "loss" \/ LossIdle
    /\ component = "opt" \/ OptCreated([lr |-> 8, beta1 |-> 8, beta2 |-> 12, epsilon |-> 1])

InitStorage ==
    /\ fs \in [Paths -> FsEntries]
    /\ fs0 = fs
    /\ StorageIdle
    /\ Elsewhere("storage")

NextStorage ==
    \/ \E p \in Paths : DeleteFileCall(p)
    \/ OsRemoveOk
    \/ OsRemoveFail
    \/ \E p \in Paths : DeleteDirectoryCall(p)
    \/ RmtreeOk
    \/ RmtreeFail
    \/ \E p \in Paths, d \in BOOLEAN : MaybeDeleteCheckpointsCall(p, d)
    \/ GfileDeleteRecursivelyOk
    \/ GfileDeleteRecursivelyFail
    \/ GfileMakeDirs
    \/ Return

SpecStorage == InitStorage /\ [][NextStorage]_vars

InitGit ==
    /\ repo \in Repos
    /\ main_pc = "git_latest_tag"
    /\ tag_out = Unset
    /\ branch_out = Unset
    /\ hash_out = Unset
    /\ Elsewhere("git")

NextGit ==
    \/ MainLatestTag
    \/ MainBranch
    \/ MainRevisionHash
    \/ MainPrint

SpecGit == InitGit /\ [][NextGit]_vars

InitConv ==
    /\ cargs \in ConvArgs
    /\ conv_pc = "check"
    /\ layer = 0
    /\ conv_out = <<cargs.b, cargs.t, cargs.f, 1>>
    /\ output = <<>>
    /\ seq_length = <<>>
    /\ ops = 0
    /\ conv_res = "running"
    /\ Elsewhere("conv")

NextConv ==
    \/ ConvCheckArguments
    \/ ConvLayer
    \/ ConvReshape
    \/ ConvTile

SpecConv == InitConv /\ [][NextConv]_vars

InitCell == CellIdle /\ Elsewhere("cell")

NextCell ==
    \E num_units \in 1..MaxUnits, num_layers \in 0..MaxLayers, dropout \in DropoutValues :
        bidirectional_cells(num_units, num_layers, dropout)

SpecCell == InitCell /\ [][NextCell]_vars

InitLoss == LossIdle /\ Elsewhere("loss")

NextLoss ==
    \E name \in VarNames, weight_decay \in DecayValues, reuse \in ReuseModes :
        variable_with_weight_decay(name, weight_decay, reuse)

SpecLoss == InitLoss /\ [][NextLoss]_vars

InitOpt == (\E h \in HyperParameters : OptCreated(h)) /\ Elsewhere("opt")

NextOpt ==
    \/ \E grad \in Gradients : ApplyDense(grad)
    \/ FinishStep

SpecOpt == InitOpt /\ [][NextOpt]_vars

----------------------------------------------------------------------------
(* Properties of conv_layers                                               *)

ConvReturned == conv_pc = "done" /\ conv_res = "ok"

Copies(n, x) == [i \in 1..n |-> x]

\* C1: whatever the true lengths of the examples, the seq_length vector that
\* conv_layers returns has one entry per batch element, all entries are equal,
\* and their value is the time-axis size (axis 1) of the returned output.
C1_SeqLengthIsOutputTime ==
    ConvReturned =>
        /\ Len(seq_length) = cargs.b
        /\ \A i \in 1..Len(seq_length) : seq_length[i] = output[2]
        /\ output[1] = cargs.b

C1_Witness ==
    /\ ConvReturned
    /\ cargs.b >= 2
    /\ cargs.lengths[1] # cargs.lengths[2]
    /\ output[2] # cargs.b

EqualLengths ==
    /\ Len(cargs.filters) = Len(cargs.kernel_sizes)
    /\ Len(cargs.kernel_sizes) = Len(cargs.strides)

MismatchFailsFast ==
    (conv_pc = "done" /\ ~EqualLengths) =>
        (conv_res = "ValueError" /\ ops = 0 /\ layer = 0)

\* C2 as stated: every equal-length triple builds, every other triple fails
\* with ValueError before any layer or graph operation is built.
C2_Original ==
    /\ (conv_pc = "done" /\ EqualLengths) => conv_res = "ok"
    /\ MismatchFailsFast

\* C2 amended: every non-empty equal-length triple whose layers leave a
\* feature map that fills rows of 10 * filters[-1] values (time * frequency a
\* multiple of 10) builds; the empty triple fails with IndexError; every
\* triple whose lengths are not all equal fails with ValueError before any
\* layer or graph operation is built.
C2_Amended ==
    /\ (/\ conv_pc = "done"
        /\ EqualLengths
        /\ Len(cargs.filters) > 0
        /\ (conv_out[2] * conv_out[3]) % 10 = 0) => conv_res = "ok"
    /\ (conv_pc = "done" /\ EqualLengths /\ Len(cargs.filters) = 0) =>
           conv_res = "IndexError"
    /\ MismatchFailsFast

C2_Witness ==
    /\ ConvReturned
    /\ EqualLengths
    /\ Len(cargs.filters) = 2
    /\ ops > 0

DefaultConfiguration ==
    /\ cargs.filters = <<32, 32, 96>>
    /\ cargs.kernel_sizes = << <<11, 41>>, <<11, 21>>, <<11, 21>> >>
    /\ cargs.strides = << <<2, 2>>, <<1, 2>>, <<1, 2>> >>

\* the time axis the three layers leave: strides 2, 1, 1 with 'SAME' padding
TimeLeft == (cargs.t + 1) \div 2

EndToEnd ==
    /\ conv_res = "ok"
    /\ output = <<cargs.b, TimeLeft, 960>>
    /\ seq_length = Copies(cargs.b, TimeLeft)

\* C3 as stated: the default configuration on an input [B, T, 40, 1] returns
\* an output [B, T', 10 * 96] and a length vector of B copies of T'.
C3_Original == (conv_pc = "done" /\ DefaultConfiguration /\ cargs.f = 40) => EndToEnd

\* C3 amended: the default configuration on an input [B, T, 80, 1] returns an
\* output [B, T', 10 * 96], the last axis flattening the 10 frequencies and 96
\* channels left, and a length vector of B copies of T' = ceil(T / 2).
C3_Amended == (conv_pc = "done" /\ DefaultConfiguration /\ cargs.f = 80) => EndToEnd

C3_Witness ==
    /\ ConvReturned
    /\ DefaultConfiguration
    /\ cargs.f = 80
    /\ cargs.t = 3
    /\ conv_out = <<cargs.b, 2, 10, 96>>

----------------------------------------------------------------------------
(* Properties of bidirectional_cells, variable_with_weight_decay and the   *)
(* logging optimizer                                                       *)

Clamp(x) == IF x < 0 THEN 0 ELSE IF x > 10 THEN 10 ELSE x

WrappedWith(cell, p) == cell.input_keep_prob = p /\ cell.output_keep_prob = p

\* C5: every cell bidirectional_cells creates, forward and backward alike, is
\* wrapped with input and output keep-probability clamp(1 - dropout, 0, 1):
\* dropout 0 gives 1, dropout 1 gives 0, values outside [0, 1] are clamped.
C5_KeepProbClamped ==
    /\ Len(fw_cells) = cell_args.num_layers
    /\ Len(bw_cells) = cell_args.num_layers
    /\ \A i \in 1..Len(fw_cells) : WrappedWith(fw_cells[i], Clamp(10 - cell_args.dropout))
    /\ \A i \in 1..Len(bw_cells) : WrappedWith(bw_cells[i], Clamp(10 - cell_args.dropout))
    /\ (cell_args.dropout = 0 /\ Len(fw_cells) > 0) => WrappedWith(fw_cells[1], 10)
    /\ (cell_args.dropout = 10 /\ Len(bw_cells) > 0) => WrappedWith(bw_cells[1], 0)

C5_Witness ==
    /\ Len(fw_cells) = 2
    /\ Len(bw_cells) = 2
    /\ cell_args.dropout = 3
    /\ fw_cells[2].input_keep_prob = 7
    /\ bw_cells[2].output_keep_prob = 7

IsPrefix(a, b) == Len(a) <= Len(b) /\ SubSeq(b, 1, Len(a)) = a

\* C6: the 'losses' collection is append-only: a call that returns appends
\* exactly one L2 penalty when its weight_decay is not None (0 included) and
\* leaves the collection as it is when it is None; no call removes or replaces
\* an entry.
C6_AppendOnly ==
    [][ /\ IsPrefix(losses, losses')
        /\ (var_calls' # var_calls /\ var_call'.outcome = "returned") =>
             IF var_call'.weight_decay.given
             THEN losses' = Append(losses, [op |-> "weight_loss",
                                            var |-> var_call'.name,
                                            coeff |-> var_call'.weight_decay.coeff])
             ELSE losses' = losses
        /\ (var_calls' # var_calls /\ var_call'.outcome # "returned") =>
             losses' = losses ]_vars

C6_Witness ==
    /\ Len(losses) = 2
    /\ var_calls = 3
    /\ var_call.outcome = "returned"
    /\ var_call.weight_decay = Decay(0)
    /\ losses[2].coeff = 0

\* C4: AdamOptimizerLogger only observes: fed the same gradients, it leaves
\* the variable, the slots m and v and the beta accumulators exactly as
\* tf.train.AdamOptimizer does.
C4_ObservationOnly == opt = ref

C4_Witness ==
    /\ opt_steps = 2
    /\ opt_pc = "finish"
    /\ opt.var # 0
    /\ opt.m # 0
    /\ summaries.step # 0
    /\ summaries.estimated_lr # 0

----------------------------------------------------------------------------
(* Properties of the git lookups                                           *)

\* C7: the lookups do not raise for the expected absence conditions: on a
\* detached head git_branch returns a sentinel string, in a repository with
\* commits but no tags git_latest_tag returns a sentinel string, and neither
\* condition aborts the logging statement of predict.main.
C7_SentinelNotRaise ==
    /\ (repo.detached /\ branch_out # Unset) => branch_out = Returned("DETACHED HEAD")
    /\ (DOMAIN repo.tags = {} /\ repo.commits /\ tag_out # Unset) => ~tag_out.raised
    /\ repo.commits => main_pc # "aborted"

----------------------------------------------------------------------------
(* Properties of storage.py                                                *)

Completed == pc \in {"done", "idle"} /\ cur.name # "none"

\* C8: delete_file_if_exists on an existing regular file makes at most 5
\* removal attempts, stops at the first one that succeeds, sleeps 1 second
\* after each failed attempt that another attempt follows, and raises
\* RuntimeError only after the 5th consecutive failure;
\* delete_directory_if_exists makes exactly one attempt and lets its OSError
\* out at once, without sleeping or retrying.
C8_RetryThenFatal ==
    /\ cur.name = "delete_file_if_exists" =>
         /\ attempts <= 5
         /\ attempts - failures \in {0, 1}
         /\ (attempts - failures = 1) => (Completed /\ result = "ok")
         /\ (Completed /\ IsFile(fs0, cur.path)) =>
              \/ result = "ok" /\ attempts = failures + 1 /\ slept = failures
              \/ result = "RuntimeError" /\ failures = 5 /\ attempts = 5 /\ slept = 4
         /\ (pc = "remove") => (failures < 5 /\ slept = failures)
    /\ cur.name = "delete_directory_if_exists" =>
         /\ attempts <= 1
         /\ slept = 0
         /\ (Completed /\ IsDir(fs0, cur.path)) => attempts = 1
         /\ (failures = 1) => (Completed /\ result = "OSError")
         /\ (Completed /\ result = "ok" /\ IsDir(fs0, cur.path)) => ~Exists(fs, cur.path)

C8_Witness ==
    /\ pc = "done"
    /\ cur.name = "delete_file_if_exists"
    /\ result = "RuntimeError"
    /\ failures = 5
    /\ last.name = "delete_directory_if_exists"
    /\ last.result = "OSError"

\* C9: delete_file_if_exists on a path that does not exist (or is no regular
\* file) makes no removal attempt, raises nothing and leaves the file system as it was; so a second
\* successful call right after a successful call on the same path leaves the
\* state the first call left.
C9_Idempotent ==
    (pc = "done" /\ cur.name = "delete_file_if_exists") =>
        /\ (~IsFile(fs0, cur.path)) => (attempts = 0 /\ result = "ok" /\ fs = fs0)
        /\ (/\ result = "ok"
            /\ last.name = "delete_file_if_exists"
            /\ last.path = cur.path
            /\ last.result = "ok") => (fs = last.fs /\ attempts = 0)

C9_Witness ==
    /\ pc = "done"
    /\ cur.name = "delete_file_if_exists"
    /\ result = "ok"
    /\ ~Exists(fs0, cur.path)
    /\ last.name = "delete_file_if_exists"
    /\ last.path = cur.path
    /\ last.result = "ok"
    /\ last.attempts > 1

OthersUntouched == \A q \in Paths \ {cur.path} : fs[q] = fs0[q]

MaybeDeleteCases ==
    /\ (Exists(fs0, cur.path) /\ cur.delete) =>
         (log = <<"DeleteRecursively", "MakeDirs">> /\ fs[cur.path] = Directory(0))
    /\ (Exists(fs0, cur.path) /\ ~cur.delete) => (log = <<>> /\ fs = fs0)
    /\ (~Exists(fs0, cur.path)) => (log = <<"MakeDirs">> /\ fs[cur.path] = Directory(0))
    /\ OthersUntouched

MaybeDeleteReturned ==
    pc = "done" /\ cur.name = "maybe_delete_checkpoints" /\ result = "ok"

\* C10 as stated: after maybe_delete_checkpoints returns, a directory is at the
\* path in every case (deleted and recreated empty, left alone, or created).
C10_Original == MaybeDeleteReturned => (IsDir(fs, cur.path) /\ MaybeDeleteCases)

\* C10 amended: after maybe_delete_checkpoints returns, the path exists in
\* every case, and it is a directory unless a regular file was at the path and
\* delete is false (the file is then left in place and nothing is created);
\* existed and delete: deleted, then recreated as an empty directory; existed
\* and not delete: nothing deleted or created; did not exist: created.
C10_Amended ==
    MaybeDeleteReturned =>
        /\ Exists(fs, cur.path)
        /\ IsDir(fs, cur.path) \/ (IsFile(fs0, cur.path) /\ ~cur.delete)
        /\ MaybeDeleteCases

C10_Witness ==
    /\ MaybeDeleteReturned
    /\ cur.delete
    /\ fs0[cur.path] = Directory(MaxChildren)
    /\ fs[cur.path] = Directory(0)

====
